---- MODULE Spec2Model ----
(***************************************************************************)
(* Request admission pipeline (express application module) and process    *)
(* lifecycle (server.js) of the backend API.                               *)
(*                                                                         *)
(* Strings that the code inspects (origins) are sequences of atoms; an     *)
(* atom stands for a fixed run of characters, chosen so that every test    *)
(* the code makes on the characters is decided by the atoms.               *)
(***************************************************************************)
EXTENDS Integers, Sequences, FiniteSets, TLC

VARIABLES
    appModule,   \* which of the two application modules is loaded: "A" = lines 1-209, "B" = lines 211-430
    env,         \* process.env: RATE_LIMIT_MAX_REQUESTS, USE_REDIS, NODE_ENV
    req,         \* the in-flight requests, one record per connection slot
    hits,        \* limiter's store: hits per client key in the current window
    slowHits,    \* speedLimiter's store: hits per client key in the current window
    ceilLog,     \* per key, the ceiling stage's decisions in the current window, in order
    delayLog,    \* per key, the delays the delay stage added in the current window, in order
    redis,       \* state of the redis client connection
    mongo,       \* mongoose.connection.readyState
    inv,         \* the invocations of gracefulShutdown
    exit,        \* how the process ended: status, and who ended it
    closes,      \* history: closes issued and settled on the two connections
    boot,        \* history of startup: connects tried, failures logged, the 'open' listener
    vOrigin,     \* origin validator taken alone: the origin given
    vResult      \* origin validator taken alone: its decision

vars == <<appModule, env, req, hits, slowHits, ceilLog, delayLog,
          redis, mongo, inv, exit, closes, boot, vOrigin, vResult>>

-----------------------------------------------------------------------------
(* Bounds *)

\* longest origin string, in atoms, given to the validator taken alone
MaxOriginLen == 5
\* requests past the ceiling, and past the delay threshold, that a key sends in one window
MaxOver == 2
\* hits per key and window explored when the full pipeline is explored
MaxHits == 3
\* signals delivered to the process
MaxSignals == 2
\* 'open' events the store's connection emits in the life of the process
MaxOpens == 2

-----------------------------------------------------------------------------
(* Strings *)

\* req.headers.origin when the request has no Origin header
Undefined == <<"<undefined>">>

\* !origin
Falsy(o) == o = Undefined \/ o = << >>

\* Array.prototype.includes / indexOf(...) !== -1
Includes(list, x) == \E i \in 1..Len(list) : list[i] = x

\* String.prototype.endsWith
EndsWith(s, suf) ==
    /\ Len(s) >= Len(suf)
    /\ SubSeq(s, Len(s) - Len(suf) + 1, Len(s)) = suf

\* atoms "<scheme>://"
SchemeAtoms == {"https://", "http://", "capacitor://"}
\* atoms ":<digits>"
PortAtoms == {":3000", ":5173"}
\* atoms that start a path
PathAtoms == {"/p"}
\* atoms made of scheme characters and starting with a letter
WordAtoms == {"x", "localhost", "vercel.app", "VERCEL.APP", "dellibup.onrender.com",
              "delibup.netlify.app", "capstonedelibup-o7sl.onrender.com"}

\* the name of the scheme in a scheme atom
SchemeName(a) ==
    CASE a = "https://" -> "https"
      [] a = "http://" -> "http"
      [] OTHER -> "capacitor"

\* index of the first atom of s that lies in A, 0 when there is none
FirstIn(s, A) ==
    IF \E i \in 1..Len(s) : s[i] \in A
    THEN CHOOSE i \in 1..Len(s) : s[i] \in A /\ \A j \in 1..(i - 1) : s[j] \notin A
    ELSE 0

\* ASCII lower-casing of a host, atom by atom
ToLower(s) == [i \in 1..Len(s) |-> IF s[i] = "VERCEL.APP" THEN "vercel.app" ELSE s[i]]

\* a run of atoms that is a valid scheme prefix: empty, or a letter first and scheme characters after
SchemePrefixOk(p) ==
    \/ p = << >>
    \/ /\ p[1] \in WordAtoms
       /\ \A i \in 1..Len(p) : p[i] \in WordAtoms \cup {"."}

URLFail == [ok |-> FALSE, hostname |-> << >>]

\* the authority of a URL whose scheme is followed by "//": its host, or failure
ParseAuthority(rest0, special) ==
    LET \* a special scheme skips further slashes before the host
        rest == IF special /\ rest0 # << >> /\ rest0[1] \in PathAtoms
                THEN <<"p">> \o Tail(rest0) ELSE rest0
        j == FirstIn(rest, SchemeAtoms \cup PortAtoms \cup PathAtoms)
        host == IF j = 0 THEN rest
                ELSE IF rest[j] \in SchemeAtoms
                     THEN SubSeq(rest, 1, j - 1) \o <<SchemeName(rest[j])>>
                     ELSE SubSeq(rest, 1, j - 1)
        portOk == \/ j = 0
                  \/ rest[j] \notin PortAtoms
                  \/ j = Len(rest)
                  \/ rest[j + 1] \in PathAtoms
    IN  IF ~portOk THEN URLFail
        ELSE IF special /\ host = << >> THEN URLFail
        ELSE [ok |-> TRUE, hostname |-> IF special THEN ToLower(host) ELSE host]

\* new URL(origin): whether it parses, and url.hostname
ParseURL(s) ==
    LET i == FirstIn(s, SchemeAtoms \cup PortAtoms)
    IN  IF i = 0 THEN URLFail
        ELSE LET prefix == SubSeq(s, 1, i - 1)
                 rest == SubSeq(s, i + 1, Len(s))
             IN  IF ~SchemePrefixOk(prefix) THEN URLFail
                 ELSE IF s[i] \in PortAtoms
                      THEN \* "<scheme>:3000...": an opaque path, no host
                           IF prefix = << >> THEN URLFail
                           ELSE [ok |-> TRUE, hostname |-> << >>]
                      ELSE ParseAuthority(rest, prefix = << >> /\ s[i] # "capacitor://")

-----------------------------------------------------------------------------
(* Origin validator *)

allowedOriginsA ==
    << <<"http://", "localhost", ":3000">>,
       <<"http://", "localhost", ":5173">>,
       <<"https://", "delibup.netlify.app">>,
       <<"capacitor://", "localhost">>,
       <<"http://", "localhost">>,
       <<"https://", "localhost">>,
       <<"https://", "dellibup.onrender.com">>,
       <<"https://", "delibup.netlify.app">> >>

allowedOriginsB ==
    << <<"http://", "localhost", ":3000">>,
       <<"http://", "localhost", ":5173">>,
       <<"https://", "capstonedelibup-o7sl.onrender.com">>,
       <<"capacitor://", "localhost">>,
       <<"http://", "localhost">>,
       <<"https://", "localhost">>,
       <<"https://", "dellibup.onrender.com">> >>

\* '.vercel.app'
VercelSuffix == <<".", "vercel.app">>

\* the origin callback of module A: TRUE is callback(null, true), FALSE is callback(new Error(...))
corsOriginA(origin) ==
    IF Falsy(origin) THEN TRUE
    ELSE IF Includes(allowedOriginsA, origin) THEN TRUE
    ELSE FALSE

\* (variant of isAllowedOrigin: the suffix tested lacks its leading dot)
isAllowedOriginNoDot(origin) ==
    IF Falsy(origin) THEN TRUE
    ELSE IF Includes(allowedOriginsB, origin) THEN TRUE
    ELSE LET url == ParseURL(origin)
         IN  IF url.ok /\ EndsWith(url.hostname, Tail(VercelSuffix)) THEN TRUE
             ELSE FALSE

isAllowedOrigin(origin) ==
    IF Falsy(origin) THEN TRUE
    ELSE IF Includes(allowedOriginsB, origin) THEN TRUE
    ELSE LET url == ParseURL(origin)
         IN  IF url.ok /\ EndsWith(url.hostname, VercelSuffix) THEN TRUE
             ELSE FALSE

\* the origin callback of module B
corsOriginB(origin) == isAllowedOrigin(origin)

\* the origin callback of the loaded module
corsOrigin(m, origin) == IF m = "A" THEN corsOriginA(origin) ELSE corsOriginB(origin)

-----------------------------------------------------------------------------
(* Configuration *)

\* an environment variable that is not set
Unset == "<unset>"

\* parseInt(s): << >> is NaN, <<n>> the number n
ParseInt(s) ==
    CASE s = "0" -> <<0>>
      [] s = "2" -> <<2>>
      [] s = "3" -> <<3>>
      [] OTHER -> << >>

\* v || d, for the result v of ParseInt
OrElse(v, d) == IF v = << >> \/ v[1] = 0 THEN d ELSE v[1]

\* the default of the limiter's max
DefaultMax == 100
\* the limiter's max
LimiterMax == OrElse(ParseInt(env.RATE_LIMIT_MAX_REQUESTS), DefaultMax)
\* speedLimiter's delayAfter and delayMs
delayAfter == 50
delayMs == 500

\* process.env.NODE_ENV === 'production'
Production == env.NODE_ENV = "production"

-----------------------------------------------------------------------------
(* Requests *)

\* connection slots: the requests in flight at one time
Reqs == {"r1"}
\* client keys (req.ip)
Keys == {"ip1", "ip2"}
\* values crypto.randomUUID() returns, told apart only by being equal or not
Ids == <<"id1", "id2">>
\* req.id before it is assigned; a JSON body drops a key with this value
NoId == "undefined"
\* no record was logged
NoLog == "<none>"

Paths == {"/api/products", "/api/cart", "/health"}
\* the path lies under the mount point '/api'
UnderApi(path) == path \in {"/api/products", "/api/cart"}

\* request bodies, by what the body parsers make of them
Bodies == {"none", "json-malformed", "form-too-large"}

\* what a route handler (an external collaborator) does with a request
HandlerOutcomes == {"ok", "validation", "unauthorized", "notfound", "failure"}
\* messages of the failures handlers raise
Messages == {"m1", "m2"}

NoErr == [name |-> "", status |-> 0, message |-> ""]
NoRes == [status |-> 0, error |-> "", text |-> "", requestId |-> NoId]

IdleReq ==
    [pc |-> "idle", ip |-> "ip1", origin |-> Undefined, path |-> "/health", body |-> "none",
     id |-> NoId, hook |-> FALSE, err |-> NoErr, res |-> NoRes, by |-> "",
     errLog |-> NoLog, doneLog |-> NoLog, delay |-> 0, trace |-> << >>, errs |-> << >>]

\* the request moves to the next stage
Goto(r, stage, changes) ==
    req' = [req EXCEPT ![r] = [f \in DOMAIN req[r] |->
                IF f = "pc" THEN stage
                ELSE IF f = "trace" THEN Append(req[r].trace, req[r].pc)
                ELSE IF f \in DOMAIN changes THEN changes[f]
                ELSE req[r][f]]]

Alive == exit.status = "running"

PipeUnchanged == UNCHANGED <<appModule, env, redis, mongo, inv, exit, closes, boot, vOrigin, vResult>>
StoresUnchanged == UNCHANGED <<hits, slowHits, ceilLog, delayLog>>

\* the listening server (server.js, app.listen) takes a request in
Accept(r, ips, origins, paths, bodies, hitCap, slowCap) ==
    /\ Alive
    /\ req[r].pc = "idle"
    /\ \E ip \in ips, o \in origins, p \in paths, b \in bodies :
          /\ hits[ip] < hitCap
          /\ slowHits[ip] < slowCap
          /\ req' = [req EXCEPT ![r] = [IdleReq EXCEPT !.pc = "helmet", !.ip = ip,
                                            !.origin = o, !.path = p, !.body = b]]
    /\ StoresUnchanged /\ PipeUnchanged

Helmet(r) ==
    /\ Alive /\ req[r].pc = "helmet"
    /\ Goto(r, "compression", << >>)
    /\ StoresUnchanged /\ PipeUnchanged

Compression(r) ==
    /\ Alive /\ req[r].pc = "compression"
    /\ Goto(r, "cors", << >>)
    /\ StoresUnchanged /\ PipeUnchanged

\* new Error('Not allowed by CORS')
CorsError == [name |-> "Error", status |-> 0, message |-> "Not allowed by CORS"]

Cors(r) ==
    /\ Alive /\ req[r].pc = "cors"
    /\ IF corsOrigin(appModule, req[r].origin)
       THEN Goto(r, "json", << >>)
       ELSE Goto(r, "errorLogger", [err |-> CorsError])
    /\ StoresUnchanged /\ PipeUnchanged

\* body-parser's errors
JsonParseError == [name |-> "SyntaxError", status |-> 400, message |-> "Unexpected token"]
TooLargeError == [name |-> "PayloadTooLargeError", status |-> 413, message |-> "request entity too large"]

Json(r) ==
    /\ Alive /\ req[r].pc = "json"
    /\ IF req[r].body = "json-malformed"
       THEN Goto(r, "errorLogger", [err |-> JsonParseError])
       ELSE Goto(r, "urlencoded", << >>)
    /\ StoresUnchanged /\ PipeUnchanged

Urlencoded(r) ==
    /\ Alive /\ req[r].pc = "urlencoded"
    /\ IF req[r].body = "form-too-large"
       THEN Goto(r, "errorLogger", [err |-> TooLargeError])
       ELSE Goto(r, "requestLogger", << >>)
    /\ StoresUnchanged /\ PipeUnchanged

\* requestLogger: registers the 'finish' listener
requestLogger(r) ==
    /\ Alive /\ req[r].pc = "requestLogger"
    /\ Goto(r, "requestId", [hook |-> TRUE])
    /\ StoresUnchanged /\ PipeUnchanged

\* crypto.randomUUID(): a value no request in flight carries
RandomUUID ==
    LET free == {n \in 1..Len(Ids) : \A q \in Reqs : req[q].id # Ids[n]}
    IN  Ids[CHOOSE n \in free : \A m \in free : n <= m]

\* req.id = crypto.randomUUID(); then the '/api' mount decides what runs next
RequestId(r) ==
    /\ Alive /\ req[r].pc = "requestId"
    /\ Goto(r, IF UnderApi(req[r].path) THEN "limiter" ELSE "route", [id |-> RandomUUID])
    /\ StoresUnchanged /\ PipeUnchanged

\* the limiter's message option, sent as the body of its 429
LimiterRes == [status |-> 429, error |-> "Too many requests, please try again later.",
               text |-> "", requestId |-> NoId]

\* (variant of OverCeiling: the request that reaches the ceiling is already rejected)
OverCeilingAtMax(n) == n >= LimiterMax

\* the ceiling stage's test on the key's hits, this request counted
OverCeiling(n) == n > LimiterMax

\* (variant of LimiterRejectStage: the limiter answers 429 and calls next() all the same)
LimiterRejectStageNext == "speedLimiter"

\* where a request the limiter rejected goes: its handler sends the response and does not
\* call next()
LimiterRejectStage == "finish"

limiter(r) ==
    /\ Alive /\ req[r].pc = "limiter"
    /\ LET k == req[r].ip
           n == hits[k] + 1
       IN  /\ hits' = [hits EXCEPT ![k] = n]
           /\ IF OverCeiling(n)
              THEN /\ Goto(r, LimiterRejectStage, [res |-> LimiterRes, by |-> "limiter"])
                   /\ ceilLog' = [ceilLog EXCEPT ![k] = Append(@, "reject")]
              ELSE /\ Goto(r, "speedLimiter", << >>)
                   /\ ceilLog' = [ceilLog EXCEPT ![k] = Append(@, "admit")]
    /\ UNCHANGED <<slowHits, delayLog>> /\ PipeUnchanged

\* (variant of SlowDownDelay: the request that reaches the threshold is already delayed)
SlowDownDelayAtThreshold(n) == IF n >= delayAfter THEN (n - delayAfter + 1) * delayMs ELSE 0

\* the delay the delay stage adds to the request that brings the key's hits to n
SlowDownDelay(n) == IF n > delayAfter THEN (n - delayAfter) * delayMs ELSE 0

speedLimiter(r) ==
    /\ Alive /\ req[r].pc = "speedLimiter"
    /\ LET k == req[r].ip
           n == slowHits[k] + 1
           d == SlowDownDelay(n)
       IN  /\ slowHits' = [slowHits EXCEPT ![k] = n]
           /\ delayLog' = [delayLog EXCEPT ![k] = Append(@, d)]
           /\ Goto(r, IF d = 0 THEN "route" ELSE "delayed", [delay |-> d])
    /\ UNCHANGED <<hits, ceilLog>> /\ PipeUnchanged

\* the delay stage's timer fires and the request goes on
TimerFire(r) ==
    /\ Alive /\ req[r].pc = "delayed"
    /\ Goto(r, "route", << >>)
    /\ StoresUnchanged /\ PipeUnchanged

\* the limiter's window of a key elapses
LimiterWindowElapse(k) ==
    /\ Alive /\ hits[k] > 0
    /\ hits' = [hits EXCEPT ![k] = 0]
    /\ ceilLog' = [ceilLog EXCEPT ![k] = << >>]
    /\ UNCHANGED <<req, slowHits, delayLog>> /\ PipeUnchanged

\* speedLimiter's window of a key elapses
SlowWindowElapse(k) ==
    /\ Alive /\ slowHits[k] > 0
    /\ slowHits' = [slowHits EXCEPT ![k] = 0]
    /\ delayLog' = [delayLog EXCEPT ![k] = << >>]
    /\ UNCHANGED <<req, hits, ceilLog>> /\ PipeUnchanged

\* the failure a handler passes to next(err)
HandlerError(outcome, msg) ==
    CASE outcome = "validation" -> [name |-> "ValidationError", status |-> 0, message |-> msg]
      [] outcome = "unauthorized" -> [name |-> "UnauthorizedError", status |-> 401, message |-> msg]
      [] outcome = "notfound" -> [name |-> "Error", status |-> 404, message |-> msg]
      [] OTHER -> [name |-> "Error", status |-> 0, message |-> msg]

OkRes == [status |-> 200, error |-> "", text |-> "ok", requestId |-> NoId]

\* route dispatch: '/health' answers itself, the '/api' routers call their handlers
Route(r, outcomes, msgs) ==
    /\ Alive /\ req[r].pc = "route"
    /\ IF ~UnderApi(req[r].path)
       THEN Goto(r, "finish", [res |-> OkRes, by |-> "route"])
       ELSE \E o \in outcomes, m \in msgs :
               IF o = "ok"
               THEN Goto(r, "finish", [res |-> OkRes, by |-> "route"])
               ELSE Goto(r, "errorLogger", [err |-> HandlerError(o, m)])
    /\ StoresUnchanged /\ PipeUnchanged

\* the record errorLogger writes: logger.error({error, stack, method, url, requestId});
\* JSON drops requestId when req.id is undefined
ErrorRecord(err, id) ==
    [kind |-> "fields", error |-> err.message, stack |-> TRUE, requestId |-> id, message |-> << >>]

\* the record the terminal handler writes: logger.error(`[Error] [${req.id}] ${err.stack}`),
\* a message string and no fields
ErrorLine(err, id) ==
    [kind |-> "message", error |-> "", stack |-> FALSE, requestId |-> NoId,
     message |-> <<"[Error] [", id, "] ", "stack">>]

\* errorLogger: one error record, then next(err)
errorLogger(r) ==
    /\ Alive /\ req[r].pc = "errorLogger"
    /\ Goto(r, "errorHandler", [errLog |-> req[r].id,
                                errs |-> Append(req[r].errs, ErrorRecord(req[r].err, req[r].id))])
    /\ StoresUnchanged /\ PipeUnchanged

\* err.status || 500
StatusOr500(err) == IF err.status = 0 THEN 500 ELSE err.status

\* (variant of ErrorResponse: the fallback sends the failure's message in every mode)
ErrorResponseUnredacted(err, id) ==
    IF err.name = "ValidationError"
    THEN [status |-> 400, error |-> "Validation Error", text |-> err.message, requestId |-> id]
    ELSE IF err.name = "UnauthorizedError"
    THEN [status |-> 401, error |-> "Authentication Error", text |-> err.message, requestId |-> id]
    ELSE [status |-> StatusOr500(err), error |-> "Internal Server Error",
          text |-> err.message, requestId |-> id]

\* the response of the terminal error handler
ErrorResponse(err, id) ==
    IF err.name = "ValidationError"
    THEN [status |-> 400, error |-> "Validation Error", text |-> err.message, requestId |-> id]
    ELSE IF err.name = "UnauthorizedError"
    THEN [status |-> 401, error |-> "Authentication Error", text |-> err.message, requestId |-> id]
    ELSE [status |-> StatusOr500(err), error |-> "Internal Server Error",
          text |-> IF Production THEN "Something went wrong" ELSE err.message,
          requestId |-> id]

ErrorHandler(r) ==
    /\ Alive /\ req[r].pc = "errorHandler"
    /\ Goto(r, "finish", [res |-> ErrorResponse(req[r].err, req[r].id), by |-> "terminal",
                          errs |-> Append(req[r].errs, ErrorLine(req[r].err, req[r].id))])
    /\ StoresUnchanged /\ PipeUnchanged

\* the response's 'finish' event: the listener requestLogger registered, if it did
Finish(r) ==
    /\ Alive /\ req[r].pc = "finish"
    /\ Goto(r, "done", [doneLog |-> IF req[r].hook THEN req[r].id ELSE NoLog])
    /\ StoresUnchanged /\ PipeUnchanged

\* the request is over and its slot is free again
Release(r) ==
    /\ Alive /\ req[r].pc = "done"
    /\ req' = [req EXCEPT ![r] = IdleReq]
    /\ StoresUnchanged /\ PipeUnchanged

-----------------------------------------------------------------------------
(* Connections and shutdown *)

\* gracefulShutdown runs once per delivered signal
Invs == 1..MaxSignals

\* seen: the store's readyState the invocation read at its test of it, -1 before
IdleInv == [pc |-> "idle", step |-> 0, quit |-> "none", close |-> "none", seen |-> -1]

\* process.env.USE_REDIS === 'true' && redisClient
RedisEnabled == env.USE_REDIS = "true" /\ redis # "absent"

LifeUnchanged == UNCHANGED <<appModule, env, req, hits, slowHits, ceilLog, delayLog, vOrigin, vResult>>

\* (variant of ShouldConnect: no test of isOpen before connect())
ShouldConnectAlways(state) == TRUE

\* !redisClient.isOpen, for the client as the module finds it when it is loaded
ShouldConnect(state) == state # "ready"

\* the client after the startup block has run up to its await: connect() is called when
\* redis is enabled and the client is not open
RedisAfterStartup(useRedis, state) ==
    IF useRedis = "true" /\ state # "absent" /\ ShouldConnect(state) THEN "connecting" ELSE state

\* the history of startup when the module has been loaded, the client found in state
BootInit(useRedis, state) ==
    [redisAtLoad |-> state,
     redisConnects |-> IF RedisAfterStartup(useRedis, state) # state THEN 1 ELSE 0,
     redisErrLog |-> 0,
     mongoFailed |-> FALSE, mongoErrLog |-> 0, escaped |-> FALSE,
     everReady |-> FALSE, opens |-> 0, openListener |-> TRUE,
     dropRuns |-> 0, drop |-> "none", dropErrLog |-> 0]

\* await redisClient.connect() settles (startup); its failure is caught and logged
RedisConnectSettle ==
    /\ Alive /\ redis = "connecting"
    /\ \E ok \in BOOLEAN :
          /\ redis' = IF ok THEN "ready" ELSE "failed"
          /\ boot' = IF ok THEN boot ELSE [boot EXCEPT !.redisErrLog = @ + 1]
    /\ UNCHANGED <<mongo, inv, exit, closes>> /\ LifeUnchanged

\* what the catch of the connect promise leaves behind: module B throws again, and nothing handles it
ConnectFailureOutcomes(m) == IF m = "B" THEN {"logged", "unhandledRejection"} ELSE {"logged"}

\* the catch of the connect promise throws the failure again (module B only), and the
\* promise it rejects has no handler
Rethrows(m) == m = "B"

\* (variant of OnOpen: the listener registered with on(), so that it stays)
OnOpenEvery(b) ==
    [b EXCEPT !.opens = @ + 1, !.dropRuns = @ + 1, !.drop = "pending"]

\* the connection emits 'open': the listener registered with once() is removed and runs
\* up to its await of dropIndexes()
OnOpen(b) ==
    IF b.openListener
    THEN [b EXCEPT !.opens = @ + 1, !.openListener = FALSE, !.dropRuns = @ + 1,
                   !.drop = "pending"]
    ELSE [b EXCEPT !.opens = @ + 1]

\* mongoose.connect(...) settles (startup)
MongoConnectSettle ==
    /\ Alive /\ mongo = 2
    /\ \E ok \in BOOLEAN :
          IF ok
          THEN /\ mongo' = 1 /\ UNCHANGED exit
               /\ boot' = [OnOpen(boot) EXCEPT !.everReady = TRUE]
          ELSE /\ mongo' = 0
               /\ boot' = [boot EXCEPT !.mongoFailed = TRUE, !.mongoErrLog = @ + 1,
                                       !.escaped = Rethrows(appModule)]
               /\ \E o \in ConnectFailureOutcomes(appModule) :
                     exit' = IF o = "unhandledRejection"
                             THEN [status |-> "1", by |-> 0] ELSE exit
    /\ UNCHANGED <<redis, inv, closes>> /\ LifeUnchanged

\* await Cart.collection.dropIndexes() settles (or mongoose.model('Cart') threw); the
\* failure is caught and logged
DropIndexesSettle ==
    /\ Alive /\ boot.drop = "pending"
    /\ \E ok \in BOOLEAN :
          boot' = IF ok THEN [boot EXCEPT !.drop = "ok"]
                  ELSE [boot EXCEPT !.drop = "failed", !.dropErrLog = @ + 1]
    /\ UNCHANGED <<redis, mongo, inv, exit, closes>> /\ LifeUnchanged

\* the driver loses the connection to the store
StoreLost ==
    /\ Alive /\ mongo = 1
    /\ mongo' = 0
    /\ UNCHANGED <<redis, inv, exit, closes, boot>> /\ LifeUnchanged

\* the driver gets the connection back, and the connection emits 'open' again
StoreReopen ==
    /\ Alive /\ mongo = 0 /\ boot.everReady
    /\ boot.opens < MaxOpens
    /\ mongo' = 1
    /\ boot' = OnOpen(boot)
    /\ UNCHANGED <<redis, inv, exit, closes>> /\ LifeUnchanged

\* (variant of ShutdownOrder: the two closes swapped)
ShutdownOrderStoreFirst == <<"store", "cache">>

\* the closes of gracefulShutdown, in the order of its statements
ShutdownOrder == <<"cache", "store">>

\* the condition under which gracefulShutdown issues the close of a step; rs is the
\* store's readyState when the condition is tested
StepApplies(name, rs) == IF name = "cache" THEN RedisEnabled ELSE rs # 0

\* the first step after step s whose close is issued; Len(ShutdownOrder) + 1 when there is none
NextStep(s, rs) ==
    LET later == {n \in (s + 1)..Len(ShutdownOrder) : StepApplies(ShutdownOrder[n], rs)}
    IN  IF later = {} THEN Len(ShutdownOrder) + 1
        ELSE CHOOSE n \in later : \A m \in later : n <= m

\* (variant of Raises: no inner try around the cache's close)
RaisesAny(name, out) == out = "err"

\* whether a close that settled with out reaches the outer catch: the cache's is caught
\* by the inner try, the store's is not
Raises(name, out) == name = "store" /\ out = "err"

\* (variant of ProcessExit: the call is missing and the invocation just returns)
ProcessExitMissing(code, i) == exit

\* process.exit(code), called by invocation i
ProcessExit(code, i) == [status |-> code, by |-> i]

\* invocation i, its step s settled (s = 0: none yet), goes on to its next close or to
\* process.exit(0); cl and rs are the history and the store's readyState after the settling
Proceed(i, s, settled, cl, rs) ==
    LET n == NextStep(s, rs)
        tested == {ShutdownOrder[m] : m \in {m \in (s + 1)..Len(ShutdownOrder) : m <= n}}
        now == IF "store" \in tested THEN [settled EXCEPT !.seen = rs] ELSE settled
    IN  IF n > Len(ShutdownOrder)
        THEN /\ inv' = [inv EXCEPT ![i] = [now EXCEPT !.pc = "exited"]]
             /\ exit' = ProcessExit("0", i)
             /\ closes' = cl
             /\ mongo' = rs
        ELSE /\ inv' = [inv EXCEPT ![i] = [now EXCEPT !.pc = "await", !.step = n]]
             /\ UNCHANGED exit
             /\ IF ShutdownOrder[n] = "cache"
                THEN closes' = [cl EXCEPT !.quitCalls = @ + 1] /\ mongo' = rs
                ELSE closes' = [cl EXCEPT !.closeCalls = @ + 1] /\ mongo' = 3

\* SIGTERM or SIGINT is delivered: gracefulShutdown starts and runs to its first await
gracefulShutdown(i) ==
    /\ Alive /\ inv[i].pc = "idle"
    /\ \A j \in Invs : j < i => inv[j].pc # "idle"
    /\ Proceed(i, 0, inv[i],
               IF i = 1
               THEN [closes EXCEPT !.bothOpen = RedisEnabled /\ redis = "ready" /\ mongo = 1]
               ELSE closes,
               mongo)
    /\ UNCHANGED <<redis, boot>> /\ LifeUnchanged

\* the close an invocation awaits settles, and the invocation goes on
Settle(i) ==
    /\ Alive /\ inv[i].pc = "await"
    /\ LET s == inv[i].step
           name == ShutdownOrder[s]
       IN  \E out \in {"ok", "err"} :
              LET settled == IF name = "cache" THEN [inv[i] EXCEPT !.quit = out]
                             ELSE [inv[i] EXCEPT !.close = out]
                  cl == IF name = "cache"
                        THEN [closes EXCEPT !.quitSettled = @ + 1]
                        ELSE [closes EXCEPT !.closeSettled = @ + 1]
                  rs == IF name = "store" /\ out = "ok" THEN 0 ELSE mongo
              IN  /\ redis' = IF name = "cache" /\ out = "ok" THEN "closed" ELSE redis
                  /\ IF Raises(name, out)
                     THEN /\ inv' = [inv EXCEPT ![i] = [settled EXCEPT !.pc = "exited"]]
                          /\ exit' = ProcessExit("1", i)
                          /\ closes' = cl
                          /\ mongo' = rs
                     ELSE Proceed(i, s, settled, cl, rs)
    /\ UNCHANGED boot /\ LifeUnchanged

-----------------------------------------------------------------------------
(* Specifications *)

NoCloses == [quitCalls |-> 0, quitSettled |-> 0, closeCalls |-> 0, closeSettled |-> 0,
             bothOpen |-> FALSE]

\* the redis client as ./utils/cacheConfig hands it over: none, one not yet connected,
\* or one already open
RedisAtLoad(useRedis) ==
    IF useRedis = "true" THEN {"absent", "uninitialized", "ready"} ELSE {"absent", "uninitialized"}

\* the state once the application module and server.js have been loaded
InitWith(modules, maxes, useRedis, nodeEnvs) ==
    /\ appModule \in modules
    /\ env \in [RATE_LIMIT_MAX_REQUESTS : maxes, USE_REDIS : useRedis, NODE_ENV : nodeEnvs]
    /\ req = [r \in Reqs |-> IdleReq]
    /\ hits = [k \in Keys |-> 0]
    /\ slowHits = [k \in Keys |-> 0]
    /\ ceilLog = [k \in Keys |-> << >>]
    /\ delayLog = [k \in Keys |-> << >>]
    /\ \E state \in RedisAtLoad(env.USE_REDIS) :
          /\ redis = RedisAfterStartup(env.USE_REDIS, state)
          /\ boot = BootInit(env.USE_REDIS, state)
    /\ mongo = 2
    /\ inv = [i \in Invs |-> IdleInv]
    /\ exit = [status |-> "running", by |-> 0]
    /\ closes = NoCloses
    /\ vOrigin = Undefined
    /\ vResult = "none"

\* origins sent through the pipeline: none, a listed one, a *.vercel.app one, an unlisted one
PipeOrigins == {Undefined, <<"https://", "localhost">>,
                <<"https://", "x", ".", "vercel.app">>, <<"https://", "x">>}

\* The request pipeline, every kind of request, a few requests per window (no request
\* reaches the delay threshold, so the delay stage's timer is never set)
Init == InitWith({"A", "B"}, {Unset, "2"}, {Unset}, {"production", "development"})

Next ==
    \/ \E r \in Reqs : Accept(r, {"ip1"}, PipeOrigins, Paths, Bodies, MaxHits, MaxHits)
    \/ \E r \in Reqs : Helmet(r)
    \/ \E r \in Reqs : Compression(r)
    \/ \E r \in Reqs : Cors(r)
    \/ \E r \in Reqs : Json(r)
    \/ \E r \in Reqs : Urlencoded(r)
    \/ \E r \in Reqs : requestLogger(r)
    \/ \E r \in Reqs : RequestId(r)
    \/ \E r \in Reqs : limiter(r)
    \/ \E r \in Reqs : speedLimiter(r)
    \/ \E r \in Reqs : Route(r, HandlerOutcomes, Messages)
    \/ \E r \in Reqs : errorLogger(r)
    \/ \E r \in Reqs : ErrorHandler(r)
    \/ \E r \in Reqs : Finish(r)
    \/ \E r \in Reqs : Release(r)
    \/ \E k \in Keys : LimiterWindowElapse(k)
    \/ \E k \in Keys : SlowWindowElapse(k)

Spec == Init /\ [][Next]_vars

\* Admission control under load: one client, requests to '/api' that the handlers answer
AdmissionInit == InitWith({"A", "B"}, {Unset, "2"}, {Unset}, {"production"})

\* the clients that send, and how far each fills speedLimiter's window: one client up to
\* past the delay threshold under the default ceiling, every client a few requests otherwise
LoadKeys == IF LimiterMax = DefaultMax THEN {"ip1"} ELSE Keys
LoadSlowCap == IF LimiterMax = DefaultMax THEN delayAfter + MaxOver ELSE MaxHits

AdmissionNext ==
    \/ \E r \in Reqs : Accept(r, LoadKeys, {Undefined}, {"/api/cart"}, {"none"},
                              LimiterMax + MaxOver, LoadSlowCap)
    \/ \E r \in Reqs : Helmet(r)
    \/ \E r \in Reqs : Compression(r)
    \/ \E r \in Reqs : Cors(r)
    \/ \E r \in Reqs : Json(r)
    \/ \E r \in Reqs : Urlencoded(r)
    \/ \E r \in Reqs : requestLogger(r)
    \/ \E r \in Reqs : RequestId(r)
    \/ \E r \in Reqs : limiter(r)
    \/ \E r \in Reqs : speedLimiter(r)
    \/ \E r \in Reqs : TimerFire(r)
    \/ \E r \in Reqs : Route(r, {"ok"}, {"m1"})
    \/ \E r \in Reqs : Finish(r)
    \/ \E r \in Reqs : Release(r)
    \/ \E k \in Keys : LimiterWindowElapse(k)
    \/ \E k \in Keys : SlowWindowElapse(k)

AdmissionSpec == AdmissionInit /\ [][AdmissionNext]_vars

\* the event loop runs a middleware that is ready to run, and a timer that is set fires
FairAdmissionSpec ==
    /\ AdmissionSpec
    /\ \A r \in Reqs : WF_vars(speedLimiter(r)) /\ WF_vars(TimerFire(r))

\* The two admission stages under the default configuration, one client filling both
\* windows to past the ceiling
WindowInit == InitWith({"A", "B"}, {Unset}, {Unset}, {"production"})

WindowNext ==
    \/ \E r \in Reqs : Accept(r, {"ip1"}, {Undefined}, {"/api/cart"}, {"none"},
                              DefaultMax + MaxOver, DefaultMax + MaxOver)
    \/ \E r \in Reqs : Helmet(r)
    \/ \E r \in Reqs : Compression(r)
    \/ \E r \in Reqs : Cors(r)
    \/ \E r \in Reqs : Json(r)
    \/ \E r \in Reqs : Urlencoded(r)
    \/ \E r \in Reqs : requestLogger(r)
    \/ \E r \in Reqs : RequestId(r)
    \/ \E r \in Reqs : limiter(r)
    \/ \E r \in Reqs : speedLimiter(r)
    \/ \E r \in Reqs : TimerFire(r)
    \/ \E r \in Reqs : Route(r, {"ok"}, {"m1"})
    \/ \E r \in Reqs : Finish(r)
    \/ \E r \in Reqs : Release(r)
    \/ \E k \in Keys : LimiterWindowElapse(k)
    \/ \E k \in Keys : SlowWindowElapse(k)

WindowSpec == WindowInit /\ [][WindowNext]_vars

\* Startup and shutdown of the connections, with requests to '/health' coming in
ShutdownInit == InitWith({"A", "B"}, {Unset}, {"true", Unset}, {"production"})

ShutdownNext ==
    \/ RedisConnectSettle
    \/ MongoConnectSettle
    \/ DropIndexesSettle
    \/ \E i \in Invs : gracefulShutdown(i)
    \/ \E i \in Invs : Settle(i)
    \/ \E r \in Reqs : Accept(r, {"ip1"}, {Undefined}, {"/health"}, {"none"}, 1, 1)
    \/ \E r \in Reqs : Helmet(r)
    \/ \E r \in Reqs : Compression(r)
    \/ \E r \in Reqs : Cors(r)
    \/ \E r \in Reqs : Json(r)
    \/ \E r \in Reqs : Urlencoded(r)
    \/ \E r \in Reqs : requestLogger(r)
    \/ \E r \in Reqs : RequestId(r)
    \/ \E r \in Reqs : Route(r, {"ok"}, {"m1"})
    \/ \E r \in Reqs : Finish(r)
    \/ \E r \in Reqs : Release(r)

ShutdownSpec == ShutdownInit /\ [][ShutdownNext]_vars

\* every close an invocation awaits settles in the end
FairShutdownSpec == ShutdownSpec /\ \A i \in Invs : WF_vars(Settle(i))

\* Startup of the connections and the life of the store's connection afterwards, with
\* requests to '/health' coming in and no signal delivered
StartupInit == InitWith({"A", "B"}, {Unset}, {"true", Unset}, {"production"})

StartupNext ==
    \/ RedisConnectSettle
    \/ MongoConnectSettle
    \/ DropIndexesSettle
    \/ StoreLost
    \/ StoreReopen
    \/ \E r \in Reqs : Accept(r, {"ip1"}, {Undefined}, {"/health"}, {"none"}, 1, 1)
    \/ \E r \in Reqs : Helmet(r)
    \/ \E r \in Reqs : Compression(r)
    \/ \E r \in Reqs : Cors(r)
    \/ \E r \in Reqs : Json(r)
    \/ \E r \in Reqs : Urlencoded(r)
    \/ \E r \in Reqs : requestLogger(r)
    \/ \E r \in Reqs : RequestId(r)
    \/ \E r \in Reqs : Route(r, {"ok"}, {"m1"})
    \/ \E r \in Reqs : Finish(r)
    \/ \E r \in Reqs : Release(r)

StartupSpec == StartupInit /\ [][StartupNext]_vars

\* The origin validator taken alone
OriginAtoms == {"https://", "x", ".", "vercel.app", "VERCEL.APP", ":3000", "/p", "localhost"}

\* the elements of a list
Elements(list) == {list[i] : i \in 1..Len(list)}

OriginInputs ==
    UNION {[1..n -> OriginAtoms] : n \in 0..MaxOriginLen}
        \cup {Undefined} \cup Elements(allowedOriginsA) \cup Elements(allowedOriginsB)

OriginInit ==
    /\ appModule \in {"A", "B"}
    /\ env = [RATE_LIMIT_MAX_REQUESTS |-> Unset, USE_REDIS |-> Unset, NODE_ENV |-> "production"]
    /\ req = [r \in Reqs |-> IdleReq]
    /\ hits = [k \in Keys |-> 0]
    /\ slowHits = [k \in Keys |-> 0]
    /\ ceilLog = [k \in Keys |-> << >>]
    /\ delayLog = [k \in Keys |-> << >>]
    /\ redis = "absent"
    /\ boot = BootInit(Unset, "absent")
    /\ mongo = 2
    /\ inv = [i \in Invs |-> IdleInv]
    /\ exit = [status |-> "running", by |-> 0]
    /\ closes = NoCloses
    /\ vOrigin \in OriginInputs
    /\ vResult = "none"

\* the cors middleware calls the origin callback with the request's origin
Validate ==
    /\ vResult = "none"
    /\ vResult' = IF corsOrigin(appModule, vOrigin) THEN "allow" ELSE "deny"
    /\ UNCHANGED <<appModule, env, req, hits, slowHits, ceilLog, delayLog,
                   redis, mongo, inv, exit, closes, boot, vOrigin>>

OriginNext == Validate

OriginSpec == OriginInit /\ [][OriginNext]_vars

-----------------------------------------------------------------------------
(* Claims *)

\* the ceiling the configuration asks for: the number set, 100 when none is set
CeilingN == IF env.RATE_LIMIT_MAX_REQUESTS = "2" THEN 2 ELSE 100

\* the request's response was made by the ceiling stage
RejectedByCeiling(r) == req[r].by = "limiter"

\* the stages the request has left
Passed(r, stage) == \E n \in 1..Len(req[r].trace) : req[r].trace[n] = stage

\* C1: in every window of every client key, the ceiling stage admits the first N requests
\* (N the configured ceiling, 100 by default) and rejects every later one; a rejected
\* request is answered 429 and goes no further; a new window starts with no request
\* counted, so its first request is admitted.
C1_Ceiling ==
    /\ \A k \in Keys : \A n \in 1..Len(ceilLog[k]) :
          ceilLog[k][n] = IF n <= CeilingN THEN "admit" ELSE "reject"
    /\ \A k \in Keys : Len(ceilLog[k]) = hits[k]
    /\ \A r \in Reqs :
          /\ RejectedByCeiling(r) =>
                /\ req[r].res.status = 429
                /\ ~Passed(r, "speedLimiter") /\ ~Passed(r, "route")
          /\ Passed(r, "limiter") /\ ~RejectedByCeiling(r) => req[r].res.status # 429

\* C1 witness: under the default ceiling the 101st request of a window has just been rejected
C1_Witness ==
    /\ env.RATE_LIMIT_MAX_REQUESTS = Unset
    /\ Len(ceilLog["ip1"]) = 101
    /\ \E r \in Reqs : req[r].pc = "finish" /\ req[r].ip = "ip1" /\ req[r].res.status = 429

\* C2 (as claimed): a second signal during a shutdown in progress issues no second close
\* on either connection, and the process ends as the first shutdown ends it.
C2_SecondSignalNoOp ==
    /\ closes.quitCalls <= 1
    /\ closes.closeCalls <= 1
    /\ exit.by \in {0, 1}

\* the shutdown was triggered with both connections open
BothOpen == closes.bothOpen

\* C3: when shutdown is triggered with both connections open, no close of the store is
\* started before a close of the cache has settled (resolved or rejected), and
\* gracefulShutdown ends the process only after a close of each has settled.
C3_CacheBeforeStore ==
    BothOpen =>
        /\ closes.closeCalls > 0 => closes.quitSettled > 0
        /\ exit.by # 0 => closes.quitSettled > 0 /\ closes.closeSettled > 0

\* C3 witness: both were open, both closes settled, and the process has ended
C3_Witness ==
    /\ BothOpen
    /\ closes.quitSettled = 1 /\ closes.closeSettled = 1
    /\ exit = [status |-> "0", by |-> 1]

\* a shutdown is in progress
ShutdownStarted == \E i \in Invs : inv[i].pc # "idle"

\* C4 (as claimed): once a signal has triggered shutdown, no new request is taken in.
C4_NoAdmissionAfterSignal ==
    [][ShutdownStarted => \A r \in Reqs : req[r].pc = "idle" => req'[r].pc = "idle"]_vars

\* the step of gracefulShutdown that closes the store
StoreStep == CHOOSE n \in 1..Len(ShutdownOrder) : ShutdownOrder[n] = "store"

\* C5: gracefulShutdown ends the process with status 1 exactly when its close of the store
\* raised, and with status 0 otherwise; a close of the cache that raised is ignored: the
\* invocation still tests the store and, finding it not disconnected, closes it, and the
\* status is still 0 unless the store's close raises.
C5_ExitStatus ==
    /\ \A i \in Invs : exit.by = i =>
          /\ exit.status = "1" <=> inv[i].close = "err"
          /\ exit.status = "0" <=> inv[i].close \in {"none", "ok"}
    /\ \A i \in Invs : inv[i].quit = "err" =>
          /\ inv[i].seen # -1
          /\ inv[i].seen # 0 => inv[i].step = StoreStep
          /\ inv[i].seen = 0 => exit = [status |-> "0", by |-> i]

\* C5 witness: the cache's close raised, the store's close succeeded, the exit status is 0
C5_Witness ==
    \E i \in Invs :
        /\ inv[i].quit = "err" /\ inv[i].close = "ok"
        /\ exit = [status |-> "0", by |-> i]

\* the response is an error response
IsErrorResponse(res) == res.status >= 400

\* C6 (as claimed): every error response carries a non-empty requestId, equal to the
\* requestId of the request's completion record and of its error record.
C6_ErrorResponseHasRequestId ==
    \A r \in Reqs : req[r].pc = "done" /\ IsErrorResponse(req[r].res) =>
        /\ req[r].res.requestId # NoId
        /\ req[r].doneLog = req[r].res.requestId
        /\ req[r].errLog # NoLog => req[r].errLog = req[r].res.requestId

\* C7: the delay stage rejects no request: a request it holds back goes on to dispatch;
\* within a window the delays it adds never decrease as the key's count grows, are zero
\* up to the threshold of 50 and grow by 500 ms per request above it.
C7_DelaysInOrder ==
    /\ \A k \in Keys : \A n \in 1..Len(delayLog[k]) :
          /\ n <= 50 => delayLog[k][n] = 0
          /\ n > 50 => delayLog[k][n] = (n - 50) * 500
          /\ n > 1 => delayLog[k][n - 1] <= delayLog[k][n]
    /\ \A r \in Reqs :
          /\ req[r].pc = "delayed" => req[r].delay > 0 /\ req[r].res = NoRes
          /\ req[r].res.status = 429 => ~Passed(r, "speedLimiter")

C7_Delay ==
    /\ []C7_DelaysInOrder
    /\ \A r \in Reqs : (req[r].pc \in {"speedLimiter", "delayed"}) ~> (req[r].pc = "route")

\* C7 witness: the 52nd request of a window is held back for 1000 ms, after the 51st
\* was held back for 500 ms
C7_Witness ==
    \E r \in Reqs :
        /\ req[r].pc = "delayed" /\ req[r].delay = 1000
        /\ Len(delayLog[req[r].ip]) = 52
        /\ delayLog[req[r].ip][51] = 500
        /\ hits[req[r].ip] <= CeilingN

\* the origin is absent: no Origin header, or an empty one
Absent(o) == o = Undefined \/ o = << >>

\* the configured allow-list and wildcard domains of a module
AllowList(m) == IF m = "A" THEN Elements(allowedOriginsA) ELSE Elements(allowedOriginsB)
WildcardDomains(m) == IF m = "A" THEN {} ELSE {<<"vercel.app">>}

\* host lies under the domain: it is the domain preceded by labels and a dot
IsSubdomain(host, domain) ==
    \E n \in 1..Len(host) : host[n] = "." /\ SubSeq(host, n + 1, Len(host)) = domain

\* C8: the validator allows an origin exactly when it is absent, or a member of the
\* allow-list, or a URL whose host is a subdomain of a configured wildcard domain; it
\* denies every other origin.
C8_OriginRules ==
    vResult # "none" =>
        (vResult = "allow" <=>
            \/ Absent(vOrigin)
            \/ vOrigin \in AllowList(appModule)
            \/ /\ ParseURL(vOrigin).ok
               /\ \E d \in WildcardDomains(appModule) : IsSubdomain(ParseURL(vOrigin).hostname, d))

\* C8 witness: an unlisted origin under vercel.app has been allowed
C8_Witness ==
    /\ appModule = "B"
    /\ vOrigin = <<"https://", "x", ".", "vercel.app">>
    /\ vResult = "allow"

\* the label of the taxonomy that an error body's "error" text stands for
Label(res) ==
    CASE res.error = "Validation Error" -> "validation"
      [] res.error = "Authentication Error" -> "unauthorized"
      [] res.error = "Internal Server Error" -> "internal"
      [] res.error = "Too many requests, please try again later." -> "rate-limited"
      [] OTHER -> "none"

\* the origin check denied the request
DeniedByOrigin(r) == req[r].err = CorsError

\* C9 (as claimed): a request the origin check denied is answered 403, cross-origin-denied.
C9_OriginDenialIs403 ==
    \A r \in Reqs : req[r].pc = "done" /\ DeniedByOrigin(r) =>
        req[r].res.status = 403 /\ Label(req[r].res) = "cross-origin-denied"

\* the (status, label) pairs the terminal handler may send
Taxonomy == {<<400, "validation">>, <<401, "unauthorized">>, <<404, "not-found">>, <<500, "internal">>}

\* C10 (as claimed): every response of the terminal error handler is one pair of the
\* taxonomy; the internal label goes with status 500 only.
C10_ClosedTaxonomy ==
    \A r \in Reqs : req[r].by = "terminal" =>
        /\ <<req[r].res.status, Label(req[r].res)>> \in Taxonomy
        /\ Label(req[r].res) = "internal" => req[r].res.status = 500

\* the terminal handler answered the request from its fallback branch
InternalResponse(r) == req[r].by = "terminal" /\ Label(req[r].res) = "internal"

\* C11: in production the body of an internal-category response does not depend on the
\* failure's message: whatever message the failure had carried, the body would be the
\* same, with the text 'Something went wrong'; outside production the body's text is the
\* failure's message.
C11_ProductionRedaction ==
    \A r \in Reqs : InternalResponse(r) =>
        IF Production
        THEN /\ req[r].res.text = "Something went wrong"
             /\ \A m \in Messages :
                    ErrorResponse([req[r].err EXCEPT !.message = m], req[r].id) = req[r].res
        ELSE req[r].res.text = req[r].err.message

\* C11 witness: in production a handler's failure with message m2 has been answered with
\* the generic text
C11_Witness ==
    /\ Production
    /\ \E r \in Reqs :
          /\ InternalResponse(r) /\ req[r].err.message = "m2"
          /\ req[r].res.text = "Something went wrong"

\* the place of a pipeline stage in the claimed order (0: a stage the order does not name)
StageRank(stage) ==
    CASE stage = "cors" -> 1
      [] stage = "helmet" -> 2
      [] stage = "compression" -> 3
      [] stage \in {"json", "urlencoded"} -> 4
      [] stage = "requestId" -> 5
      [] stage \in {"limiter", "speedLimiter", "delayed"} -> 6
      [] stage = "route" -> 7
      [] OTHER -> 0

\* C12 (as claimed): every request goes through the stages in the order origin check,
\* security headers, compression, body parse, request id, admission control, dispatch;
\* the origin check runs before security headers and compression, and the request id is
\* assigned before admission control.
C12_PipelineOrder ==
    \A r \in Reqs : \A i, j \in 1..Len(req[r].trace) :
        i < j /\ StageRank(req[r].trace[i]) > 0 /\ StageRank(req[r].trace[j]) > 0
            => StageRank(req[r].trace[i]) <= StageRank(req[r].trace[j])

\* the request has reached route dispatch (the response-cache wrapper of '/api/products'
\* is the first thing dispatch runs there)
Dispatched(r) == req[r].pc = "route" \/ Passed(r, "route")

\* C13: a request the origin check denied or the ceiling stage rejected never reaches
\* route dispatch; a dispatched request was allowed by the origin check and, under
\* '/api', was admitted by the ceiling stage (which handed it on to the delay stage).
C13_DeniedNeverDispatched ==
    \A r \in Reqs :
        /\ DeniedByOrigin(r) \/ RejectedByCeiling(r) => ~Dispatched(r)
        /\ Dispatched(r) =>
              /\ Passed(r, "cors") /\ corsOrigin(appModule, req[r].origin)
              /\ UnderApi(req[r].path) =>
                    /\ Passed(r, "limiter") /\ Passed(r, "speedLimiter")
                    /\ req[r].res.status # 429

\* C13 witness: a request the ceiling stage rejected is over and was never dispatched
C13_Witness ==
    \E r \in Reqs :
        /\ req[r].pc = "done" /\ RejectedByCeiling(r)
        /\ UnderApi(req[r].path) /\ ~Dispatched(r)

\* C14 (as claimed): when the first connect to the store fails, the failure is logged
\* once, the connection is left disconnected, no failure is left unhandled by the startup
\* code, and the process is not ended by it.
C14_StoreFailureNonFatal ==
    boot.mongoFailed =>
        /\ boot.mongoErrLog = 1
        /\ mongo = 0
        /\ ~boot.escaped
        /\ ~(exit.by = 0 /\ exit.status # "running")

\* C15: index normalization is started at most once, and exactly once when the store has
\* ever become ready; it is started only in a step that takes the store to ready, and no
\* later 'open' event starts it again; its failure is logged once and ends neither the
\* process nor any request.
C15_DropIndexesState ==
    /\ boot.dropRuns <= 1
    /\ boot.dropRuns = 1 <=> boot.everReady
    /\ boot.opens > 0 => boot.dropRuns = 1
    /\ boot.dropErrLog = IF boot.drop = "failed" THEN 1 ELSE 0

C15_IndexNormalizationOnce ==
    /\ []C15_DropIndexesState
    /\ [][boot'.dropRuns # boot.dropRuns => mongo # 1 /\ mongo' = 1]_vars
    /\ [][boot'.drop = "failed" /\ boot.drop # "failed" => exit' = exit /\ req' = req]_vars

\* C15 witness: the store was lost and came back, 'open' was emitted twice, index
\* normalization ran once and failed, and a request has been served since
C15_Witness ==
    /\ boot.opens = 2 /\ boot.dropRuns = 1
    /\ boot.drop = "failed" /\ boot.dropErrLog = 1
    /\ \E r \in Reqs : req[r].pc = "done" /\ req[r].res.status = 200

\* C17: the startup code calls connect() on the cache client at most once, and only when
\* the cache is enabled and the client is there and not already open; when the connect
\* fails the failure is logged once and the client is left failed, and the failure ends
\* neither the process nor any request.
C17_CacheConnectState ==
    /\ boot.redisConnects <= 1
    /\ boot.redisConnects = 1 =>
          env.USE_REDIS = "true" /\ boot.redisAtLoad = "uninitialized"
    /\ boot.redisErrLog = IF redis = "failed" THEN 1 ELSE 0

C17_CacheFailOpen ==
    /\ []C17_CacheConnectState
    /\ [][redis' = "failed" /\ redis # "failed" => exit' = exit /\ req' = req]_vars

\* C17 witness: the connect to the cache was tried once and failed, the process runs
\* and a request has been served
C17_Witness ==
    /\ boot.redisConnects = 1 /\ redis = "failed" /\ boot.redisErrLog = 1
    /\ Alive
    /\ \E r \in Reqs : req[r].pc = "done" /\ req[r].res.status = 200

\* C16 (as claimed): gracefulShutdown issues the close of the cache only when the cache's
\* connection is open, and the close of the store only when the store's connection is
\* open; a connection becomes closed only from open.
C16_CloseOnlyIfOpen ==
    /\ [][closes'.quitCalls > closes.quitCalls => redis = "ready"]_vars
    /\ [][closes'.closeCalls > closes.closeCalls => mongo = 1]_vars
    /\ [][redis' = "closed" /\ redis # "closed" => redis = "ready"]_vars

\* the records with fields among the error records written for the request
StructuredErrors(r) == {n \in 1..Len(req[r].errs) : req[r].errs[n].kind = "fields"}

\* C18 (as claimed): for every failure the terminal handler has answered, exactly one
\* structured error record was written, and it carries the request's identifier (a
\* value, the one assigned to the request), the failure's message and its stack.
C18_OneErrorRecord ==
    \A r \in Reqs : req[r].by = "terminal" =>
        /\ Cardinality(StructuredErrors(r)) = 1
        /\ \A n \in StructuredErrors(r) :
              /\ req[r].errs[n].requestId # NoId
              /\ req[r].errs[n].requestId = req[r].id
              /\ req[r].errs[n].error = req[r].err.message
              /\ req[r].errs[n].stack

\* C19 (as claimed): a request the ceiling stage rejected is never counted by the delay
\* stage; under the default configuration the delay stage's count of a key never exceeds
\* 100 in a window, and no request is delayed by more than (100 - 50) * 500 = 25000 ms.
C19_DelayBounded ==
    /\ \A r \in Reqs : RejectedByCeiling(r) => ~Passed(r, "speedLimiter")
    /\ env.RATE_LIMIT_MAX_REQUESTS = Unset =>
          /\ \A k \in Keys : slowHits[k] <= 100
          /\ \A k \in Keys : \A n \in 1..Len(delayLog[k]) : delayLog[k][n] <= 25000
          /\ \A r \in Reqs : req[r].delay <= 25000

\* C20: once a signal has started gracefulShutdown, and provided every close it awaits
\* settles, the process ends; and an invocation that has left its last await has called
\* process.exit.
C20_ShutdownTerminates ==
    /\ ShutdownStarted ~> ~Alive
    /\ [](\A i \in Invs : inv[i].pc = "exited" => exit.by = i /\ ~Alive)

\* C20 witness: cache enabled, the cache's close failed and then the store's close failed,
\* and the invocation has called process.exit
C20_Witness ==
    \E i \in Invs :
        /\ RedisEnabled
        /\ inv[i].pc = "exited" /\ inv[i].quit = "err" /\ inv[i].close = "err"
        /\ exit = [status |-> "1", by |-> i]

====
